---- MODULE Spec2Model ----
\* The project scaffolding script setup.py of Ambassador: two prompts, their
\* validation, then a fixed list of deletions, moves, directory creations,
\* literal substitutions and file writes on the template tree "Ambassador".
\* Text (names, paths, file contents) is a sequence of one-character strings,
\* so that str.replace, os.path.join and re.fullmatch act on characters.
EXTENDS Integers, Sequences, FiniteSets, TLC

VARIABLES
    pc,            \* position of the script: "L44", "L45", "L53", "L54", "L62", "done", "aborted"
    ip,            \* while pc = "L62": index in Script of the next statement of lines 62-365
    project_name,  \* line 44
    package_name,  \* line 53
    dirs,          \* the directories of the working directory (paths relative to it)
    files,         \* its regular files: path -> content
    exit_status,   \* <<>> while the process runs, <<status>> once it has ended
    log,           \* history: one record per statement executed, in order
    fs0,           \* history: dirs and files before the run
    manifest0,     \* history: content of the manifest before the run
    r_files,       \* replace_in_file alone: the files
    r_args,        \* replace_in_file alone: the (original, replacement) pair
    r_calls,       \* replace_in_file alone: calls made so far
    r_before,      \* replace_in_file alone: history, the files before the first call
    r_once,        \* replace_in_file alone: history, the files after the first call
    r_alive        \* replace_in_file alone: FALSE once exit() was called

vars ==
    <<pc, ip, project_name, package_name, dirs, files, exit_status, log, fs0,
      manifest0, r_files, r_args, r_calls, r_before, r_once, r_alive>>

script_vars ==
    <<pc, ip, project_name, package_name, dirs, files, exit_status, log, fs0, manifest0>>

replace_vars ==
    <<r_files, r_args, r_calls, r_before, r_once, r_alive>>

\* Path components of the template tree (lines 62-184).
\* Ambassador
Ambassador ==
    <<"A","m","b","a","s","s","a","d","o","r">>
\* HEAD
HEAD ==
    <<"H","E","A","D">>
\* index.html
index_html ==
    <<"i","n","d","e","x",".","h","t","m","l">>
\* example
example ==
    <<"e","x","a","m","p","l","e">>
\* web
web ==
    <<"w","e","b">>
\* .git
dot_git ==
    <<".","g","i","t">>
\* docs
docs ==
    <<"d","o","c","s">>
\* misc
misc ==
    <<"m","i","s","c">>
\* src
src_dir ==
    <<"s","r","c">>
\* com
com ==
    <<"c","o","m">>
\* .gitignore
dot_gitignore ==
    <<".","g","i","t","i","g","n","o","r","e">>
\* .gitattributes
dot_gitattributes ==
    <<".","g","i","t","a","t","t","r","i","b","u","t","e","s">>
\* Doxyfile
Doxyfile ==
    <<"D","o","x","y","f","i","l","e">>
\* README.md
README_md ==
    <<"R","E","A","D","M","E",".","m","d">>
\* .idea
dot_idea ==
    <<".","i","d","e","a">>
\* vcs.xml
vcs_xml ==
    <<"v","c","s",".","x","m","l">>
\* Ambassador.iml
Ambassador_iml ==
    <<"A","m","b","a","s","s","a","d","o","r",".","i","m","l">>
\* .iml
dot_iml ==
    <<".","i","m","l">>
\* artifacts
artifacts ==
    <<"a","r","t","i","f","a","c","t","s">>
\* ambassador_template.xml
ambassador_template_xml ==
    <<"a","m","b","a","s","s","a","d","o","r","_","t","e","m","p","l","a","t","e",".","x","m","l">>
\* runConfigurations
runConfigurations ==
    <<"r","u","n","C","o","n","f","i","g","u","r","a","t","i","o","n","s">>
\* .xml
dot_xml ==
    <<".","x","m","l">>
\* controllers
controllers ==
    <<"c","o","n","t","r","o","l","l","e","r","s">>
\* META-INF
META_INF ==
    <<"M","E","T","A","-","I","N","F">>
\* MANIFEST.MF
MANIFEST_MF ==
    <<"M","A","N","I","F","E","S","T",".","M","F">>
\* scopes
scopes ==
    <<"s","c","o","p","e","s">>
\* web_ambassador.xml
web_ambassador_xml ==
    <<"w","e","b","_","a","m","b","a","s","s","a","d","o","r",".","x","m","l">>
\* modules.xml
modules_xml ==
    <<"m","o","d","u","l","e","s",".","x","m","l">>
\* .java
dot_java ==
    <<".","j","a","v","a">>
\* HomeController.java
HomeController_java ==
    <<"H","o","m","e","C","o","n","t","r","o","l","l","e","r",".","j","a","v","a">>
\* DateTime.java
DateTime_java ==
    <<"D","a","t","e","T","i","m","e",".","j","a","v","a">>

\* Placeholder tokens of the substitution rules (lines 116-184).
\* com.example.app.WebApplication
WebApplicationRef ==
    <<"c","o","m",".","e","x","a","m","p","l","e",".","a","p","p",".","W","e","b","A","p","p","l","i","c","a","t","i","o","n">>
\* ambassador-template
ambassador_dash_template ==
    <<"a","m","b","a","s","s","a","d","o","r","-","t","e","m","p","l","a","t","e">>
\* ambassador_template
ambassador_underscore_template ==
    <<"a","m","b","a","s","s","a","d","o","r","_","t","e","m","p","l","a","t","e">>
\* com.example.app
com_example_app ==
    <<"c","o","m",".","e","x","a","m","p","l","e",".","a","p","p">>

\* Interpolated text of the stamped files (lines 189-198, 231, 328).
\* package 
kw_package ==
    <<"p","a","c","k","a","g","e"," ">>
\* ;\r\n
semicolon_crlf ==
    <<";","\r","\n">>
\* \r\n
crlf ==
    <<"\r","\n">>
\* import 
kw_import ==
    <<"i","m","p","o","r","t"," ">>
\* .controllers.DateTime;\r\n
import_DateTime_tail ==
    <<".","c","o","n","t","r","o","l","l","e","r","s",".","D","a","t","e","T","i","m","e",";","\r","\n">>
\* .controllers.HomeController;\r\n
import_HomeController_tail ==
    <<".","c","o","n","t","r","o","l","l","e","r","s",".","H","o","m","e","C","o","n","t","r","o","l","l","e","r",";","\r","\n">>
\* .controllers;\r\n
controllers_tail ==
    <<".","c","o","n","t","r","o","l","l","e","r","s",";","\r","\n">>
\* import web.ambassador.core.Kernel;\r\n
import_Kernel ==
    <<"i","m","p","o","r","t"," ","w","e","b",".","a","m","b","a","s","s","a","d","o","r",".","c","o","r","e",".","K","e","r","n","e","l",";","\r","\n">>
\* import java.io.IOException;\r\n
import_IOException ==
    <<"i","m","p","o","r","t"," ","j","a","v","a",".","i","o",".","I","O","E","x","c","e","p","t","i","o","n",";","\r","\n">>
\* public class 
kw_public_class ==
    <<"p","u","b","l","i","c"," ","c","l","a","s","s"," ">>
\*  {\r\n
open_brace_crlf ==
    <<" ","{","\r","\n">>

\* Texts typed at the two prompts.
\* MyApp
MyApp ==
    <<"M","y","A","p","p">>
\* Foo
Foo ==
    <<"F","o","o">>
\* AmbassadorX
AmbassadorX ==
    <<"A","m","b","a","s","s","a","d","o","r","X">>
\* myApp
myApp ==
    <<"m","y","A","p","p">>
\* My-App
My_dash_App ==
    <<"M","y","-","A","p","p">>
\* 123app
n123app ==
    <<"1","2","3","a","p","p">>
\* org.bar
org_bar ==
    <<"o","r","g",".","b","a","r">>
\* org.acme.widgets
org_acme_widgets ==
    <<"o","r","g",".","a","c","m","e",".","w","i","d","g","e","t","s">>
\* Com.example
Com_example ==
    <<"C","o","m",".","e","x","a","m","p","l","e">>
\* com..app
com_dotdot_app ==
    <<"c","o","m",".",".","a","p","p">>

\* Contents of the template's descriptor files.
\* Manifest-Version: 1.0\nMain-Class: 
ManifestHead ==
    <<"M","a","n","i","f","e","s","t","-","V","e","r","s","i","o","n",":"," ","1",".","0","\n","M","a","i","n","-","C","l","a","s","s",":"," ">>
\* \nPackage: com.example.app\n
ManifestPackageLine ==
    <<"\n","P","a","c","k","a","g","e",":"," ","c","o","m",".","e","x","a","m","p","l","e",".","a","p","p","\n">>
\* <artifact name="ambassador-template"><output>out/ambassador_template</output><module name="Ambassador"/>
ArtifactXml ==
    <<"<","a","r","t","i","f","a","c","t"," ","n","a","m","e","=","\"","a","m","b","a","s","s","a","d","o","r","-","t","e","m","p","l","a","t","e","\"",">","<","o","u","t","p","u","t",">","o","u","t","/","a","m","b","a","s","s","a","d","o","r","_","t","e","m","p","l","a","t","e","<","/","o","u","t","p","u","t",">","<","m","o","d","u","l","e"," ","n","a","m","e","=","\"","A","m","b","a","s","s","a","d","o","r","\"","/",">">>
\* <configuration name="ambassador-template"><module name="Ambassador"/><main name="com.example.app.WebApplication"/>
RunConfigurationXml ==
    <<"<","c","o","n","f","i","g","u","r","a","t","i","o","n"," ","n","a","m","e","=","\"","a","m","b","a","s","s","a","d","o","r","-","t","e","m","p","l","a","t","e","\"",">","<","m","o","d","u","l","e"," ","n","a","m","e","=","\"","A","m","b","a","s","s","a","d","o","r","\"","/",">","<","m","a","i","n"," ","n","a","m","e","=","\"","c","o","m",".","e","x","a","m","p","l","e",".","a","p","p",".","W","e","b","A","p","p","l","i","c","a","t","i","o","n","\"","/",">">>
\* <scope pattern="com.example.app..*"/>
ScopeXml ==
    <<"<","s","c","o","p","e"," ","p","a","t","t","e","r","n","=","\"","c","o","m",".","e","x","a","m","p","l","e",".","a","p","p",".",".","*","\"","/",">">>
\* <module filepath="Ambassador.iml"/>
ModulesXml ==
    <<"<","m","o","d","u","l","e"," ","f","i","l","e","p","a","t","h","=","\"","A","m","b","a","s","s","a","d","o","r",".","i","m","l","\"","/",">">>

\* ---------------------------------------------------------------- text

\* os.sep on the platforms where os.path.join joins with "/".
os_sep ==
    "/"

\* The first place where original occurs in content, 0 when it does not.
find(content, original) ==
    LET at == {i \in 1..(Len(content) - Len(original) + 1) :
                  SubSeq(content, i, i + Len(original) - 1) = original}
    IN  IF at = {} THEN 0 ELSE CHOOSE i \in at : \A j \in at : i <= j

\* str.replace with an empty original: the replacement goes before every
\* character and after the last one.
RECURSIVE interleave(_, _)
interleave(content, replacement) ==
    IF content = <<>>
    THEN replacement
    ELSE replacement \o <<Head(content)>> \o interleave(Tail(content), replacement)

\* str.replace(original, replacement, 1): the first occurrence only.
replace_first(content, original, replacement) ==
    IF original = <<>> THEN replacement \o content
    ELSE IF find(content, original) = 0 THEN content
    ELSE SubSeq(content, 1, find(content, original) - 1) \o replacement
         \o SubSeq(content, find(content, original) + Len(original), Len(content))

\* str.replace(original, replacement) as CPython computes it: the leftmost
\* occurrence is found and replaced, and the search resumes after it, so the
\* occurrences replaced do not overlap and inserted text is not searched.
RECURSIVE replace(_, _, _)
replace(content, original, replacement) ==
    IF original = <<>> THEN interleave(content, replacement)
    ELSE IF find(content, original) = 0 THEN content
    ELSE SubSeq(content, 1, find(content, original) - 1) \o replacement
         \o replace(SubSeq(content, find(content, original) + Len(original), Len(content)),
                    original, replacement)

\* os.path.join(a, b): b alone when it is absolute, else a and b with one
\* separator between them.
join(a, b) ==
    IF b # <<>> /\ Head(b) = os_sep
    THEN b
    ELSE IF a = <<>> \/ a[Len(a)] = os_sep
    THEN a \o b
    ELSE a \o <<os_sep>> \o b

join3(a, b, c) ==
    join(join(a, b), c)

join4(a, b, c, d) ==
    join(join3(a, b, c), d)

\* The character classes of the two patterns.
Upper ==
    {"A","B","C","D","E","F","G","H","I","J","K","L","M",
     "N","O","P","Q","R","S","T","U","V","W","X","Y","Z"}

Lower ==
    {"a","b","c","d","e","f","g","h","i","j","k","l","m",
     "n","o","p","q","r","s","t","u","v","w","x","y","z"}

Digit ==
    {"0","1","2","3","4","5","6","7","8","9"}

WordChar ==
    Upper \cup Lower \cup Digit \cup {"_"}

\* re.fullmatch(r'[A-Z][a-zA-Z0-9_]*', name): the pattern's automaton, run over
\* the whole of name. "first" expects the [A-Z], "rest" is accepting.
ClassNameStep(q, c) ==
    IF q = "first" /\ c \in Upper THEN "rest"
    ELSE IF q = "rest" /\ c \in WordChar THEN "rest"
    ELSE "dead"

RECURSIVE ClassNameRun(_, _)
ClassNameRun(q, s) ==
    IF s = <<>> THEN q ELSE ClassNameRun(ClassNameStep(q, Head(s)), Tail(s))

is_valid_java_class_name(name) ==
    ClassNameRun("first", name) = "rest"

\* re.fullmatch(r'([a-z][a-zA-Z0-9_]*)(\.[a-z][a-zA-Z0-9_]*)*', package):
\* "first" expects the [a-z] of a segment, "rest" is accepting and takes a
\* word character or the dot that opens the next segment.
PackageStep(q, c) ==
    IF q = "first" /\ c \in Lower THEN "rest"
    ELSE IF q = "rest" /\ c \in WordChar THEN "rest"
    ELSE IF q = "rest" /\ c = "." THEN "first"
    ELSE "dead"

RECURSIVE PackageRun(_, _)
PackageRun(q, s) ==
    IF s = <<>> THEN q ELSE PackageRun(PackageStep(q, Head(s)), Tail(s))

\* The same pattern under re.match: a prefix of package may match.
is_valid_java_package_match(package) ==
    \E k \in 0..Len(package) : PackageRun("first", SubSeq(package, 1, k)) = "rest"

is_valid_java_package(package) ==
    PackageRun("first", package) = "rest"

\* ------------------------------------------------------- the filesystem

IsDir(d, p) ==
    p = <<>> \/ p \in d

IsFile(f, p) ==
    p \in DOMAIN f

Exists(d, f, p) ==
    IsDir(d, p) \/ IsFile(f, p)

\* p is root or lies below it.
Under(root, p) ==
    \/ p = root
    \/ Len(p) > Len(root) /\ SubSeq(p, 1, Len(root) + 1) = root \o <<os_sep>>

\* Index of the last separator of p, 0 when it has none.
LastSep(p) ==
    LET S == {i \in 1..Len(p) : p[i] = os_sep}
    IN  IF S = {} THEN 0 ELSE CHOOSE i \in S : \A j \in S : j <= i

dirname(p) ==
    SubSeq(p, 1, LastSep(p) - 1)

basename(p) ==
    SubSeq(p, LastSep(p) + 1, Len(p))

Restrict(f, S) ==
    [p \in S |-> f[p]]

\* What one filesystem call leaves behind: the tree, and the exception it
\* raised ("none" when it returned).
Result(d, f, e) ==
    [dirs |-> d, files |-> f, err |-> e]

\* shutil.rmtree(path), lines 62-65.
rmtree(d, f, path, fault) ==
    IF ~Exists(d, f, path) THEN Result(d, f, "FileNotFoundError")
    ELSE IF IsFile(f, path) THEN Result(d, f, "NotADirectoryError")
    ELSE IF fault # "none" THEN Result(d, f, "OSError")
    ELSE Result({p \in d : ~Under(path, p)},
                Restrict(f, {p \in DOMAIN f : ~Under(path, p)}),
                "none")

\* os.remove(path), lines 67-71.
remove(d, f, path, fault) ==
    IF ~Exists(d, f, path) THEN Result(d, f, "FileNotFoundError")
    ELSE IF IsDir(d, path) THEN Result(d, f, "IsADirectoryError")
    ELSE IF fault # "none" THEN Result(d, f, "OSError")
    ELSE Result(d, Restrict(f, DOMAIN f \ {path}), "none")

\* The path p of the tree src once src is called dst.
Rebase(src, dst, p) ==
    IF Under(src, p) THEN dst \o SubSeq(p, Len(src) + 1, Len(p)) ELSE p

\* os.rename(src, dst) of an existing src onto a dst that does not exist or is
\* a regular file replaced by a regular file.
rename(d, f, src, dst) ==
    LET moved == {p \in DOMAIN f : Under(src, p)}
        kept  == {p \in DOMAIN f : ~Under(src, p) /\ p # dst}
        back  == [q \in {Rebase(src, dst, p) : p \in moved} |->
                     CHOOSE p \in moved : Rebase(src, dst, p) = q]
    IN  Result({Rebase(src, dst, p) : p \in d},
               [q \in kept \cup DOMAIN back |->
                   IF q \in DOMAIN back THEN f[back[q]] ELSE f[q]],
               "none")

\* shutil.move(src, dst), lines 74-100: into dst when dst is a directory
\* (unless it is src itself), else onto dst.
move(d, f, src, dst, fault) ==
    LET real_dst == IF IsDir(d, dst) /\ src # dst THEN join(dst, basename(src)) ELSE dst
    IN  IF ~Exists(d, f, src) THEN Result(d, f, "FileNotFoundError")
        ELSE IF src = dst THEN Result(d, f, "none")
        ELSE IF IsDir(d, dst) /\ Exists(d, f, real_dst) THEN Result(d, f, "shutil.Error")
        ELSE IF IsDir(d, src) /\ IsFile(f, real_dst) THEN Result(d, f, "FileExistsError")
        ELSE IF ~IsDir(d, dirname(real_dst)) THEN Result(d, f, "FileNotFoundError")
        ELSE IF fault # "none" THEN Result(d, f, "OSError")
        ELSE rename(d, f, src, real_dst)

\* The path and every ancestor of it that os.makedirs visits.
Ancestors(path) ==
    {SubSeq(path, 1, i - 1) : i \in {j \in 2..Len(path) : path[j] = os_sep}} \cup {path}

\* os.makedirs(path, exist_ok=True), lines 107-114.
makedirs(d, f, path, fault) ==
    IF \E a \in Ancestors(path) : IsFile(f, a)
    THEN Result(d, f, IF IsFile(f, path) THEN "FileExistsError" ELSE "NotADirectoryError")
    ELSE IF fault # "none" /\ ~IsDir(d, path) THEN Result(d, f, "OSError")
    ELSE Result(d \cup Ancestors(path), f, "none")

\* with open(path, "w") as main: main.write(text), lines 186-365. Opening for
\* writing creates or empties the file before anything is written.
write_file(d, f, path, text, fault) ==
    LET with(c) == [p \in DOMAIN f \cup {path} |-> IF p = path THEN c ELSE f[p]]
    IN  IF IsDir(d, path) THEN Result(d, f, "IsADirectoryError")
        ELSE IF ~IsDir(d, dirname(path)) THEN Result(d, f, "FileNotFoundError")
        ELSE IF fault = "open" THEN Result(d, f, "PermissionError")
        ELSE IF fault = "write" THEN Result(d, with(<<>>), "OSError")
        ELSE Result(d, with(text), "none")

\* replace_in_file that opens the file with "a" at line 27: the updated content
\* is written after the old one.
replace_in_file_append(d, f, filename, original, replacement, fault) ==
    LET with(c) == [f EXCEPT ![filename] = c]
        ended(r) == [dirs |-> r.dirs, files |-> r.files, err |-> r.err, exit |-> TRUE]
    IN  IF ~Exists(d, f, filename) THEN ended(Result(d, f, "FileNotFoundError"))
        ELSE IF IsDir(d, filename) THEN ended(Result(d, f, "IsADirectoryError"))
        ELSE IF fault = "open" THEN ended(Result(d, f, "PermissionError"))
        ELSE IF fault = "write" THEN ended(Result(d, f, "OSError"))
        ELSE [dirs |-> d,
              files |-> with(f[filename] \o replace(f[filename], original, replacement)),
              err |-> "none", exit |-> FALSE]

\* replace_in_file whose handlers print and return instead of calling exit().
replace_in_file_no_exit(d, f, filename, original, replacement, fault) ==
    LET with(c) == [f EXCEPT ![filename] = c]
        went_on(r) == [dirs |-> r.dirs, files |-> r.files, err |-> r.err, exit |-> FALSE]
    IN  IF ~Exists(d, f, filename) THEN went_on(Result(d, f, "FileNotFoundError"))
        ELSE IF IsDir(d, filename) THEN went_on(Result(d, f, "IsADirectoryError"))
        ELSE IF fault = "open" THEN went_on(Result(d, f, "PermissionError"))
        ELSE IF fault = "write" THEN went_on(Result(d, with(<<>>), "OSError"))
        ELSE [dirs |-> d, files |-> with(replace(f[filename], original, replacement)),
              err |-> "none", exit |-> FALSE]

\* replace_in_file, lines 21-36. Both handlers print and call exit(); the
\* field "exit" tells whether the call ended the process.
replace_in_file(d, f, filename, original, replacement, fault) ==
    LET with(c) == [f EXCEPT ![filename] = c]
        ended(r) == [dirs |-> r.dirs, files |-> r.files, err |-> r.err, exit |-> TRUE]
    IN  IF ~Exists(d, f, filename) THEN ended(Result(d, f, "FileNotFoundError"))
        ELSE IF IsDir(d, filename) THEN ended(Result(d, f, "IsADirectoryError"))
        ELSE IF fault = "open" THEN ended(Result(d, f, "PermissionError"))
        ELSE IF fault = "write" THEN ended(Result(d, with(<<>>), "OSError"))
        ELSE [dirs |-> d, files |-> with(replace(f[filename], original, replacement)),
              err |-> "none", exit |-> FALSE]

\* ------------------------------------------------------------ the script

\* One statement of lines 62-365: the call, the group of the script it
\* belongs to, its line, and its arguments.
Stmt(line, op, kind, a, b, c) ==
    [line |-> line, op |-> op, kind |-> kind, a |-> a, b |-> b, c |-> c]

\* Lines 62-71: the deletions.
PruneStmts ==
    << Stmt(62, "rmtree", "delete", join(Ambassador, dot_git), <<>>, <<>>),
       Stmt(63, "rmtree", "delete", join(Ambassador, docs), <<>>, <<>>),
       Stmt(64, "rmtree", "delete", join(Ambassador, misc), <<>>, <<>>),
       Stmt(65, "rmtree", "delete", join3(Ambassador, src_dir, com), <<>>, <<>>),
       Stmt(67, "remove", "delete", join(Ambassador, dot_gitignore), <<>>, <<>>),
       Stmt(68, "remove", "delete", join(Ambassador, dot_gitattributes), <<>>, <<>>),
       Stmt(69, "remove", "delete", join(Ambassador, Doxyfile), <<>>, <<>>),
       Stmt(70, "remove", "delete", join(Ambassador, README_md), <<>>, <<>>),
       Stmt(71, "remove", "delete", join3(Ambassador, dot_idea, vcs_xml), <<>>, <<>>) >>

\* Lines 74-100 without the move of lines 79-88: the artifact descriptor keeps
\* its template name.
RenameStmts_NoArtifact(name) ==
    << Stmt(74, "move", "move", Ambassador, name, <<>>),
       Stmt(75, "move", "move", join(name, Ambassador_iml), join(name, name \o dot_iml), <<>>),
       Stmt(89, "move", "move",
            join4(name, dot_idea, runConfigurations, ambassador_template_xml),
            join4(name, dot_idea, runConfigurations, name \o dot_xml), <<>>) >>

\* Lines 74-100: the moves.
RenameStmts(name) ==
    << Stmt(74, "move", "move", Ambassador, name, <<>>),
       Stmt(75, "move", "move", join(name, Ambassador_iml), join(name, name \o dot_iml), <<>>),
       Stmt(79, "move", "move",
            join4(name, dot_idea, artifacts, ambassador_template_xml),
            join4(name, dot_idea, artifacts, name \o dot_xml), <<>>),
       Stmt(89, "move", "move",
            join4(name, dot_idea, runConfigurations, ambassador_template_xml),
            join4(name, dot_idea, runConfigurations, name \o dot_xml), <<>>) >>

\* Lines 102-106 without the .replace('.', os.sep): the dots are kept.
folder_path_dotted(name, package) ==
    join3(name, src_dir, package)

\* Lines 102-106: the directory of the package, every dot of the joined path
\* turned into a separator.
folder_path(name, package) ==
    replace(join3(name, src_dir, package), <<".">>, <<os_sep>>)

\* Lines 107-114: the directories of the package.
MakedirsStmts(name, package) ==
    << Stmt(107, "makedirs", "mkdir", folder_path(name, package), <<>>, <<>>),
       Stmt(111, "makedirs", "mkdir", join(folder_path(name, package), controllers), <<>>, <<>>) >>

\* Lines 116-184: the substitutions, (file, original, replacement).
SubstStmts(name, package) ==
    << Stmt(116, "replace_in_file", "subst", join3(name, META_INF, MANIFEST_MF),
            WebApplicationRef, package \o <<".">> \o name),
       Stmt(122, "replace_in_file", "subst", join4(name, dot_idea, artifacts, name \o dot_xml),
            ambassador_dash_template, name),
       Stmt(130, "replace_in_file", "subst", join4(name, dot_idea, artifacts, name \o dot_xml),
            ambassador_underscore_template, name),
       Stmt(138, "replace_in_file", "subst", join4(name, dot_idea, artifacts, name \o dot_xml),
            Ambassador, name),
       Stmt(147, "replace_in_file", "subst",
            join4(name, dot_idea, runConfigurations, name \o dot_xml),
            ambassador_dash_template, name),
       Stmt(155, "replace_in_file", "subst",
            join4(name, dot_idea, runConfigurations, name \o dot_xml),
            Ambassador, name),
       Stmt(163, "replace_in_file", "subst",
            join4(name, dot_idea, runConfigurations, name \o dot_xml),
            WebApplicationRef, package \o <<".">> \o name),
       Stmt(172, "replace_in_file", "subst", join4(name, dot_idea, scopes, web_ambassador_xml),
            com_example_app, package),
       Stmt(181, "replace_in_file", "subst", join3(name, dot_idea, modules_xml),
            Ambassador, name) >>

\* Lines 189-222: the text of the entry point. Its last element stands for the
\* fixed lines 199-221, which hold neither the name nor the package.
MainJava(name, package) ==
    kw_package \o package \o semicolon_crlf \o crlf
    \o kw_import \o package \o import_DateTime_tail
    \o kw_import \o package \o import_HomeController_tail
    \o crlf \o import_Kernel \o import_IOException \o crlf
    \o kw_public_class \o name \o open_brace_crlf
    \o <<"[lines 199-221]">>

\* Lines 230-319: the text of the home controller; the fixed lines 232-318
\* are one element.
HomeControllerJava(package) ==
    kw_package \o package \o controllers_tail \o <<"[lines 232-318]">>

\* Lines 327-365: the text of the date and time controller; the fixed lines
\* 329-364 are one element.
DateTimeJava(package) ==
    kw_package \o package \o controllers_tail \o <<"[lines 329-364]">>

\* Lines 186-365: the three files written.
StampStmts(name, package) ==
    << Stmt(186, "write", "stamp", join(folder_path(name, package), name \o dot_java),
            MainJava(name, package), <<>>),
       Stmt(224, "write", "stamp",
            join3(folder_path(name, package), controllers, HomeController_java),
            HomeControllerJava(package), <<>>),
       Stmt(321, "write", "stamp",
            join3(folder_path(name, package), controllers, DateTime_java),
            DateTimeJava(package), <<>>) >>

\* Lines 62-365 with the files written before the substitutions are made.
Script_StampFirst(name, package) ==
    PruneStmts \o RenameStmts(name) \o MakedirsStmts(name, package)
    \o StampStmts(name, package) \o SubstStmts(name, package)

\* Lines 62-365 in the order the interpreter executes them.
Script(name, package) ==
    PruneStmts \o RenameStmts(name) \o MakedirsStmts(name, package)
    \o SubstStmts(name, package) \o StampStmts(name, package)

\* exit() with no argument ends the process with status 0 (lines 32, 36, 51,
\* 60), as does running off the end of the script; an exception nothing
\* catches ends it with status 1 (lines 62-114, 186-365).
exit_default_status ==
    0

uncaught_exception_status ==
    1

ExitStatus(how) ==
    IF how = "traceback" THEN uncaught_exception_status ELSE exit_default_status

\* ---------------------------------------------------- the template tree

\* The directories of a well-formed template, in the working directory.
TemplateDirs ==
    { Ambassador,
      join(Ambassador, dot_git), join(Ambassador, docs), join(Ambassador, misc),
      join(Ambassador, src_dir), join3(Ambassador, src_dir, com), join4(Ambassador, src_dir, com, example),
      join3(Ambassador, src_dir, web),
      join(Ambassador, dot_idea), join3(Ambassador, dot_idea, artifacts),
      join3(Ambassador, dot_idea, runConfigurations), join3(Ambassador, dot_idea, scopes),
      join(Ambassador, META_INF) }

\* Its files whose content the script never reads.
PlainFiles ==
    { join3(Ambassador, dot_git, HEAD), join3(Ambassador, docs, index_html),
      join(Ambassador, dot_gitignore), join(Ambassador, dot_gitattributes),
      join(Ambassador, Doxyfile), join(Ambassador, README_md),
      join3(Ambassador, dot_idea, vcs_xml), join(Ambassador, Ambassador_iml) }

\* Its files the substitutions of lines 116-184 rewrite, with their content.
DescriptorFiles(manifest) ==
    (join3(Ambassador, META_INF, MANIFEST_MF) :> manifest)
    @@ (join4(Ambassador, dot_idea, artifacts, ambassador_template_xml) :> ArtifactXml)
    @@ (join4(Ambassador, dot_idea, runConfigurations, ambassador_template_xml)
            :> RunConfigurationXml)
    @@ (join4(Ambassador, dot_idea, scopes, web_ambassador_xml) :> ScopeXml)
    @@ (join3(Ambassador, dot_idea, modules_xml) :> ModulesXml)

TemplateFiles(manifest) ==
    [p \in PlainFiles |-> <<>>] @@ DescriptorFiles(manifest)

\* The manifests a template may hold: one reference to the placeholder class
\* (PlainManifest), two of them, and one that also names the placeholder
\* package on its own. A damaged template holds the first.
PlainManifest ==
    ManifestHead \o WebApplicationRef \o <<"\n">>

ManifestContents ==
    { PlainManifest,
      ManifestHead \o WebApplicationRef \o <<" ">> \o WebApplicationRef \o <<"\n">>,
      ManifestHead \o WebApplicationRef \o ManifestPackageLine }

\* The paths one of which a damaged template lacks; <<>> when it lacks none.
AbsentChoices ==
    { <<>>,
      join(Ambassador, docs),
      join3(Ambassador, dot_idea, vcs_xml),
      join(Ambassador, Ambassador_iml),
      join4(Ambassador, dot_idea, runConfigurations, ambassador_template_xml),
      join3(Ambassador, META_INF, MANIFEST_MF),
      join3(Ambassador, dot_idea, modules_xml) }

\* What lies next to the template under a name the user may type: nothing, a
\* directory, a regular file.
ExtraChoices ==
    {"none", "dir", "file"}

\* The texts typed at the prompt of line 44.
ProjectNameInputs ==
    {<<>>, MyApp, Foo, AmbassadorX, myApp, My_dash_App, n123app}

\* The texts typed at the prompt of line 53.
PackageInputs ==
    {<<>>, com_example_app, org_bar, org_acme_widgets, Com_example, com_dotdot_app}

\* How a call may fail for a reason the tree does not show (permissions, a
\* full disk): not at all, when the file is opened, when it is written.
Faults ==
    {"none", "open", "write"}

\* ------------------------------------------------------ the state machine

Init ==
    /\ pc = "L44"
    /\ ip = 1
    /\ project_name = <<>>
    /\ package_name = <<>>
    /\ exit_status = <<>>
    /\ log = <<>>
    /\ \E manifest \in ManifestContents, absent \in AbsentChoices, extra \in ExtraChoices :
          /\ absent = <<>> \/ extra = "none"
          /\ manifest = PlainManifest \/ (absent = <<>> /\ extra = "none")
          /\ manifest0 = manifest
          /\ dirs = {p \in TemplateDirs : absent = <<>> \/ ~Under(absent, p)}
                       \cup (IF extra = "dir" THEN {Foo} ELSE {})
          /\ files = Restrict(TemplateFiles(manifest),
                              {p \in DOMAIN TemplateFiles(manifest) :
                                  absent = <<>> \/ ~Under(absent, p)})
                       @@ (IF extra = "file" THEN Foo :> <<>> ELSE <<>>)
    /\ fs0 = [dirs |-> dirs, files |-> files]
    /\ r_files = <<>>
    /\ r_args = <<>>
    /\ r_calls = 0
    /\ r_before = <<>>
    /\ r_once = <<>>
    /\ r_alive = FALSE

Logged(kind, line, err) ==
    Append(log, [kind |-> kind, line |-> line, err |-> err])

\* Line 44: project_name = input("Project name: ").
InputProjectName ==
    /\ pc = "L44"
    /\ \E s \in ProjectNameInputs : project_name' = s
    /\ pc' = "L45"
    /\ log' = Logged("input", 44, "none")
    /\ UNCHANGED <<ip, package_name, dirs, files, exit_status, fs0, manifest0>>
    /\ UNCHANGED replace_vars

\* Lines 45-51 without the exit() of line 51: the bad name is reported and the
\* script goes on.
CheckProjectName_NoExit ==
    /\ pc = "L45"
    /\ pc' = "L53"
    /\ log' = Logged("validate", 45,
                     IF is_valid_java_class_name(project_name) THEN "none" ELSE "invalid")
    /\ UNCHANGED <<ip, project_name, package_name, dirs, files, exit_status, fs0, manifest0>>
    /\ UNCHANGED replace_vars

\* Lines 45-51: the name is checked; a bad one is reported and exit() called.
CheckProjectName ==
    /\ pc = "L45"
    /\ IF is_valid_java_class_name(project_name)
       THEN /\ pc' = "L53"
            /\ log' = Logged("validate", 45, "none")
            /\ UNCHANGED exit_status
       ELSE /\ pc' = "aborted"
            /\ log' = Logged("validate", 45, "invalid")
            /\ exit_status' = <<ExitStatus("exit")>>
    /\ UNCHANGED <<ip, project_name, package_name, dirs, files, fs0, manifest0>>
    /\ UNCHANGED replace_vars

\* Line 53: package_name = input("Project package: ").
InputPackageName ==
    /\ pc = "L53"
    /\ \E s \in PackageInputs : package_name' = s
    /\ pc' = "L54"
    /\ log' = Logged("input", 53, "none")
    /\ UNCHANGED <<ip, project_name, dirs, files, exit_status, fs0, manifest0>>
    /\ UNCHANGED replace_vars

\* Lines 54-60: the package is checked; a bad one is reported and exit() called.
CheckPackageName ==
    /\ pc = "L54"
    /\ IF is_valid_java_package(package_name)
       THEN /\ pc' = "L62"
            /\ log' = Logged("validate", 54, "none")
            /\ UNCHANGED exit_status
       ELSE /\ pc' = "aborted"
            /\ log' = Logged("validate", 54, "invalid")
            /\ exit_status' = <<ExitStatus("exit")>>
    /\ UNCHANGED <<ip, project_name, package_name, dirs, files, fs0, manifest0>>
    /\ UNCHANGED replace_vars

\* The statement of lines 62-365 the interpreter is at, and whether it is the
\* last one.
Current ==
    LET script == Script(project_name, package_name)
    IN  [stmt |-> script[ip], last |-> ip = Len(script)]

\* What follows a statement: the tree it left, and then the next statement,
\* the end of the script, or the end of the process ("exit": exit() was
\* called; "traceback": an exception reached the top level).
Continue(st, r, how) ==
    /\ dirs' = r.dirs
    /\ files' = r.files
    /\ log' = Logged(st.stmt.kind, st.stmt.line, r.err)
    /\ IF how # "running"
       THEN pc' = "aborted" /\ exit_status' = <<ExitStatus(how)>> /\ ip' = ip
       ELSE IF st.last
       THEN pc' = "done" /\ exit_status' = <<ExitStatus("end")>> /\ ip' = ip
       ELSE pc' = pc /\ exit_status' = exit_status /\ ip' = ip + 1
    /\ UNCHANGED <<project_name, package_name, fs0, manifest0>>
    /\ UNCHANGED replace_vars

\* A statement of lines 62-114 and 186-365 stands in no try block: whatever
\* it raises ends the process with a traceback.
Unguarded(r) ==
    IF r.err = "none" THEN "running" ELSE "traceback"

\* replace_in_file ends the process itself, in its handlers.
Guarded(r) ==
    IF r.exit THEN "exit" ELSE "running"

Rmtree ==
    /\ pc = "L62"
    /\ LET st == Current
       IN  /\ st.stmt.op = "rmtree"
           /\ \E fault \in Faults :
                  LET r == rmtree(dirs, files, st.stmt.a, fault)
                  IN  Continue(st, r, Unguarded(r))

Remove ==
    /\ pc = "L62"
    /\ LET st == Current
       IN  /\ st.stmt.op = "remove"
           /\ \E fault \in Faults :
                  LET r == remove(dirs, files, st.stmt.a, fault)
                  IN  Continue(st, r, Unguarded(r))

Move ==
    /\ pc = "L62"
    /\ LET st == Current
       IN  /\ st.stmt.op = "move"
           /\ \E fault \in Faults :
                  LET r == move(dirs, files, st.stmt.a, st.stmt.b, fault)
                  IN  Continue(st, r, Unguarded(r))

Makedirs ==
    /\ pc = "L62"
    /\ LET st == Current
       IN  /\ st.stmt.op = "makedirs"
           /\ \E fault \in Faults :
                  LET r == makedirs(dirs, files, st.stmt.a, fault)
                  IN  Continue(st, r, Unguarded(r))

ReplaceInFile ==
    /\ pc = "L62"
    /\ LET st == Current
       IN  /\ st.stmt.op = "replace_in_file"
           /\ \E fault \in Faults :
                  LET r == replace_in_file(dirs, files, st.stmt.a, st.stmt.b, st.stmt.c, fault)
                  IN  Continue(st, r, Guarded(r))

WriteFile ==
    /\ pc = "L62"
    /\ LET st == Current
       IN  /\ st.stmt.op = "write"
           /\ \E fault \in Faults :
                  LET r == write_file(dirs, files, st.stmt.a, st.stmt.b, fault)
                  IN  Continue(st, r, Unguarded(r))

Next ==
    \/ InputProjectName
    \/ CheckProjectName
    \/ InputPackageName
    \/ CheckPackageName
    \/ Rmtree
    \/ Remove
    \/ Move
    \/ Makedirs
    \/ ReplaceInFile
    \/ WriteFile

Spec ==
    Init /\ [][Next]_vars

\* ------------------------------------------------ replace_in_file alone

MaxLen ==
    3

MaxTokenLen ==
    2

MaxCalls ==
    2

Alphabet ==
    {"a", "b"}

Texts(n) ==
    UNION {[1..k -> Alphabet] : k \in 0..n}

\* replace_in_file called on one file, again and again with the same pair.
ReplaceInit ==
    /\ r_files \in {<<>>} \cup {[p \in {MANIFEST_MF} |-> c] : c \in Texts(MaxLen)}
    /\ r_args \in Texts(MaxTokenLen) \X Texts(MaxTokenLen)
    /\ r_calls = 0
    /\ r_before = r_files
    /\ r_once = <<>>
    /\ r_alive = TRUE
    /\ pc = "none"
    /\ ip = 1
    /\ project_name = <<>>
    /\ package_name = <<>>
    /\ dirs = {}
    /\ files = <<>>
    /\ exit_status = <<>>
    /\ log = <<>>
    /\ fs0 = [dirs |-> {}, files |-> <<>>]
    /\ manifest0 = <<>>

CallReplaceInFile ==
    /\ r_alive
    /\ r_calls < MaxCalls
    /\ LET r == replace_in_file({}, r_files, MANIFEST_MF, r_args[1], r_args[2], "none")
       IN  /\ r_files' = r.files
           /\ r_alive' = ~r.exit
           /\ r_once' = IF r_calls = 0 THEN r.files ELSE r_once
    /\ r_calls' = r_calls + 1
    /\ UNCHANGED <<r_args, r_before>>
    /\ UNCHANGED script_vars

ReplaceNext ==
    CallReplaceInFile

ReplaceSpec ==
    ReplaceInit /\ [][ReplaceNext]_vars

\* ------------------------------------------------------------ properties

\* The two grammars, stated on the text itself.
NameGrammar(s) ==
    /\ Len(s) >= 1
    /\ s[1] \in Upper
    /\ \A i \in 2..Len(s) : s[i] \in WordChar

\* The places where t occurs in s.
Occ(s, t) ==
    {i \in 1..(Len(s) - Len(t) + 1) : SubSeq(s, i, i + Len(t) - 1) = t}

Contains(s, t) ==
    Occ(s, t) # {}

\* s cut at the occurrences of the non-empty t, leftmost first: the texts
\* before, between and after them.
RECURSIVE Pieces(_, _)
Pieces(s, t) ==
    IF Occ(s, t) = {}
    THEN <<s>>
    ELSE LET i == CHOOSE k \in Occ(s, t) : \A j \in Occ(s, t) : k <= j
         IN  <<SubSeq(s, 1, i - 1)>> \o Pieces(SubSeq(s, i + Len(t), Len(s)), t)

\* The pieces put together again with x between them.
RECURSIVE Glue(_, _)
Glue(pieces, x) ==
    IF Len(pieces) = 1
    THEN pieces[1]
    ELSE pieces[1] \o x \o Glue(Tail(pieces), x)

PackageGrammar(s) ==
    \A k \in 1..Len(Pieces(s, <<".">>)) :
        LET seg == Pieces(s, <<".">>)[k]
        IN  /\ Len(seg) >= 1
            /\ seg[1] \in Lower
            /\ \A i \in 2..Len(seg) : seg[i] \in WordChar

StartsWith(s, t) ==
    Len(s) >= Len(t) /\ SubSeq(s, 1, Len(t)) = t

\* A statement of the given line was executed and raised nothing.
Executed(line) ==
    \E i \in 1..Len(log) : log[i].line = line /\ log[i].err = "none"

\* A statement that touches the filesystem was executed (or attempted).
TouchedFilesystem ==
    \E i \in 1..Len(log) : log[i].kind \notin {"input", "validate"}

\* Both checks have been made, or the first one has ended the run.
Decided ==
    pc \in {"L62", "done", "aborted"}

ReachedPruning ==
    pc \in {"L62", "done"} \/ (pc = "aborted" /\ TouchedFilesystem)

\* C1: whenever the name typed, or the package typed, fails its grammar, no
\* statement that touches the filesystem is ever executed and the tree is the
\* one the run started with; the run is at the check or has ended there.
C1_InvalidInputTouchesNothing ==
    (\/ pc # "L44" /\ ~NameGrammar(project_name)
     \/ pc \notin {"L44", "L45", "L53"} /\ ~PackageGrammar(package_name))
    => /\ pc \in {"L45", "L54", "aborted"}
       /\ ~TouchedFilesystem
       /\ dirs = fs0.dirs
       /\ files = fs0.files

C1_Witness ==
    /\ pc = "aborted"
    /\ project_name = n123app
    /\ Len(log) = 2
    /\ log[2].err = "invalid"

\* C2: a run that ends aborted ends with a non-zero status, and a status of 0
\* belongs to a run that ended done.
C2_AbortedExitsNonZero ==
    /\ pc = "aborted" => exit_status # <<0>>
    /\ exit_status = <<0>> => pc = "done"

\* C3: a statement that raised is the last statement of the run: nothing of
\* its group or of a later group is executed after it, and the run is aborted.
C3_FailureIsLast ==
    \A i \in 1..Len(log) :
        log[i].err # "none" => i = Len(log) /\ pc = "aborted"

C3_Witness ==
    /\ pc = "aborted"
    /\ log[Len(log)].line = 63
    /\ log[Len(log)].err = "FileNotFoundError"
    /\ join3(Ambassador, META_INF, MANIFEST_MF) \in DOMAIN files

\* C7: once the checks are made, the run has gone on to the deletions exactly
\* when the name and the package match their grammars; the name MyApp with
\* the package com.example.app goes on, and the empty name, myApp, My-App,
\* 123app, Com.example and com..app do not.
C7_ProceedsIffGrammar ==
    Decided =>
       /\ ReachedPruning <=> (NameGrammar(project_name) /\ PackageGrammar(package_name))
       /\ project_name = MyApp /\ package_name = com_example_app => ReachedPruning
       /\ project_name \in {<<>>, myApp, My_dash_App, n123app} => ~ReachedPruning
       /\ package_name \in {Com_example, com_dotdot_app} => ~ReachedPruning

C7_Witness ==
    /\ pc = "L62"
    /\ ip = 1
    /\ project_name = MyApp
    /\ package_name = com_example_app

\* The path of the manifest and of the two descriptors once renamed.
ManifestPath ==
    project_name \o <<os_sep>> \o META_INF \o <<os_sep>> \o MANIFEST_MF

ArtifactPath ==
    project_name \o <<os_sep>> \o dot_idea \o <<os_sep>> \o artifacts
    \o <<os_sep>> \o project_name \o dot_xml

RunConfigurationPath ==
    project_name \o <<os_sep>> \o dot_idea \o <<os_sep>> \o runConfigurations
    \o <<os_sep>> \o project_name \o dot_xml

\* The placeholder package occurs in m only as the head of the placeholder
\* class reference.
OnlyInsideRef(m) ==
    Occ(m, com_example_app) \subseteq Occ(m, WebApplicationRef)

\* The class name the run gives the project: package, dot, name.
QualifiedName ==
    package_name \o <<".">> \o project_name

\* The manifest with every placeholder class reference reading package.name.
ExpectedManifest ==
    Glue(Pieces(manifest0, WebApplicationRef), QualifiedName)

\* The length of the first k pieces.
RECURSIVE LenUpTo(_, _)
LenUpTo(pieces, k) ==
    IF k = 0 THEN 0 ELSE Len(pieces[k]) + LenUpTo(pieces, k - 1)

\* Where the k-th inserted class name starts in ExpectedManifest.
InsertedStart(k) ==
    LenUpTo(Pieces(manifest0, WebApplicationRef), k) + (k - 1) * Len(QualifiedName) + 1

\* The occurrence of the placeholder package at q shares a character with an
\* inserted class name.
OverlapsInserted(q) ==
    \E k \in 1..(Len(Pieces(manifest0, WebApplicationRef)) - 1) :
        /\ q <= InsertedStart(k) + Len(QualifiedName) - 1
        /\ q + Len(com_example_app) - 1 >= InsertedStart(k)

\* C5 as claimed: after the substitution of line 116, a manifest that held the
\* placeholder package only inside the placeholder class reference reads
\* package.name at every reference and holds no occurrence of com.example.app.
C5_NoPlaceholderPackageLeft ==
    (Executed(116) /\ OnlyInsideRef(manifest0))
    => /\ files[ManifestPath] = ExpectedManifest
       /\ ~Contains(files[ManifestPath], com_example_app)

\* C5 as amended: after the substitution of line 116, a manifest that held
\* the placeholder package only inside the placeholder class reference reads
\* package.name at every reference, and every occurrence of com.example.app
\* left in it shares a character with an inserted package.name (none is left
\* of the template's own text).
C5_ManifestReadsQualifiedName ==
    (Executed(116) /\ OnlyInsideRef(manifest0))
    => /\ files[ManifestPath] = ExpectedManifest
       /\ \A q \in Occ(files[ManifestPath], com_example_app) : OverlapsInserted(q)

C5_Witness ==
    /\ Executed(116)
    /\ OnlyInsideRef(manifest0)
    /\ package_name = org_acme_widgets
    /\ Len(Pieces(manifest0, WebApplicationRef)) = 3
    /\ ~Contains(files[ManifestPath], com_example_app)

\* The directory of the package, from its segments.
PackageDir ==
    project_name \o <<os_sep>> \o src_dir \o <<os_sep>>
    \o Glue(Pieces(package_name, <<".">>), <<os_sep>>)

\* C6: at the end of a run that went through, the entry point is the file
\* name.java of the directory name/src/s1/.../sk and starts with the line
\* "package P;"; HomeController.java and DateTime.java are files of its
\* subdirectory controllers and start with the line "package P.controllers;".
C6_StampedFilesInPackageDirectory ==
    pc = "done" =>
        LET main == PackageDir \o <<os_sep>> \o project_name \o dot_java
            ctl  == PackageDir \o <<os_sep>> \o controllers
            home == ctl \o <<os_sep>> \o HomeController_java
            date == ctl \o <<os_sep>> \o DateTime_java
        IN  /\ PackageDir \in dirs
            /\ ctl \in dirs
            /\ main \in DOMAIN files
            /\ StartsWith(files[main], kw_package \o package_name \o <<";", "\r", "\n">>)
            /\ home \in DOMAIN files
            /\ StartsWith(files[home],
                          kw_package \o package_name \o controllers_tail)
            /\ date \in DOMAIN files
            /\ StartsWith(files[date],
                          kw_package \o package_name \o controllers_tail)

C6_Witness ==
    /\ pc = "done"
    /\ project_name = Foo
    /\ package_name = org_bar
    /\ join4(Foo, src_dir, <<"o","r","g">>, <<"b","a","r">>) \in dirs

\* The tree the run started with holds every directory and file of the
\* template.
WellFormed(fs) ==
    /\ TemplateDirs \subseteq fs.dirs
    /\ DOMAIN TemplateFiles(PlainManifest) \subseteq DOMAIN fs.files

\* No call failed for a reason the tree does not show.
NoIOFailure ==
    \A i \in 1..Len(log) : log[i].err \notin {"OSError", "PermissionError"}

C8_Premise ==
    /\ pc \notin {"L44", "L45", "L53", "L54"}
    /\ NameGrammar(project_name)
    /\ PackageGrammar(package_name)
    /\ WellFormed(fs0)
    /\ ~Exists(fs0.dirs, fs0.files, project_name)
    /\ NoIOFailure

\* The guard of Next: the script is at a prompt, at a check, or at a
\* statement of lines 62-365 that one of the actions executes.
CanStep ==
    \/ pc \in {"L44", "L45", "L53", "L54"}
    \/ /\ pc = "L62"
       /\ ip \in 1..Len(Script(project_name, package_name))
       /\ Current.stmt.op \in
             {"rmtree", "remove", "move", "makedirs", "replace_in_file", "write"}

\* C8: with a valid name and package, a well-formed template, nothing named
\* like the project next to it and no input/output failure, no statement
\* raises and the run is never aborted; until it is done a next statement
\* can be executed, each executed once, and once done it has written the
\* three files, every statement of lines 62-365 executed.
C8_WellFormedRunIsDone ==
    C8_Premise =>
        /\ \A i \in 1..Len(log) : log[i].err = "none"
        /\ pc # "aborted"
        /\ pc = "done" \/ CanStep
        /\ Len(log) <= 4 + Len(Script(project_name, package_name))
        /\ pc = "done" =>
              /\ Executed(186) /\ Executed(224) /\ Executed(321)
              /\ Len(log) = 4 + Len(Script(project_name, package_name))

C8_Witness ==
    /\ pc = "done"
    /\ C8_Premise
    /\ project_name = MyApp
    /\ Foo \in fs0.dirs

\* The place of a statement in the order of the states: collecting (1),
\* validating (2), pruning (3), renaming (4), substituting (5), stamping (6).
StateRank(e) ==
    CASE e.kind = "input" -> 1
      [] e.kind = "validate" -> 2
      [] e.kind = "delete" -> 3
      [] e.kind \in {"move", "mkdir"} -> 4
      [] e.kind = "subst" -> 5
      [] e.kind = "stamp" -> 6

\* C9 as claimed: the statements of a run are executed in the order of the
\* states, none of an earlier state after one of a later state: both inputs
\* before any validation, deletions before moves, moves and directory
\* creations before substitutions, substitutions before the files written.
C9_StatesInOrder ==
    \A i, j \in 1..Len(log) : i < j => StateRank(log[i]) <= StateRank(log[j])

\* The same order with the name collected and checked before the package is
\* collected and checked.
StepRank(e) ==
    CASE e.line = 44 -> 1
      [] e.line = 45 -> 2
      [] e.line = 53 -> 3
      [] e.line = 54 -> 4
      [] OTHER -> 2 + StateRank(e)

\* C9 as amended: the name is collected and validated, then the package is
\* collected and validated, and only then come, in this order and never
\* going back, the deletions, the moves and directory creations, the
\* substitutions and the files written; a run leaves the order only by
\* ending.
C9_StepsInOrder ==
    /\ \A i, j \in 1..Len(log) : i < j => StepRank(log[i]) <= StepRank(log[j])
    /\ Len(log) >= 1 => log[1].line = 44
    /\ Len(log) >= 2 => log[2].line = 45
    /\ Len(log) >= 3 => log[3].line = 53
    /\ Len(log) >= 4 => log[4].line = 54
    /\ Len(log) >= 5 => log[5].kind = "delete"

C9_Witness ==
    /\ pc = "done"
    /\ \E i \in 1..Len(log) : log[i].kind = "stamp"
    /\ \E i \in 1..Len(log) : log[i].kind = "subst"
    /\ \E i \in 1..Len(log) : log[i].kind = "mkdir"

\* The rules whose token occurs in s at place i.
HitAt(s, rules, i) ==
    {k \in 1..Len(rules) : i + Len(rules[k][1]) - 1 <= Len(s)
                           /\ SubSeq(s, i, i + Len(rules[k][1]) - 1) = rules[k][1]}

\* All the rules applied in one pass over s: at the first place where a token
\* occurs, the first rule with that token is applied, and the pass resumes
\* after the token.
RECURSIVE Simultaneous(_, _)
Simultaneous(s, rules) ==
    LET places == {i \in 1..Len(s) : HitAt(s, rules, i) # {}}
    IN  IF places = {}
        THEN s
        ELSE LET i == CHOOSE p \in places : \A q \in places : p <= q
                 k == CHOOSE m \in HitAt(s, rules, i) : \A n \in HitAt(s, rules, i) : m <= n
             IN  SubSeq(s, 1, i - 1) \o rules[k][2]
                 \o Simultaneous(SubSeq(s, i + Len(rules[k][1]), Len(s)), rules)

\* C10: once its three rules are applied, each descriptor is its original
\* content with all the placeholder tokens replaced in one pass, every
\* placeholder reading exactly the name.
C10_SequentialIsSimultaneous ==
    /\ Executed(138) =>
          files[ArtifactPath]
            = Simultaneous(ArtifactXml,
                           << <<ambassador_dash_template, project_name>>,
                              <<ambassador_underscore_template, project_name>>,
                              <<Ambassador, project_name>> >>)
    /\ Executed(163) =>
          files[RunConfigurationPath]
            = Simultaneous(RunConfigurationXml,
                           << <<ambassador_dash_template, project_name>>,
                              <<Ambassador, project_name>>,
                              <<WebApplicationRef, QualifiedName>> >>)

\* The one file of the runs of replace_in_file alone.
TheFile ==
    r_files[MANIFEST_MF]

====
